---- MODULE Spec2Model ----
(***************************************************************************)
(* A model of the real-estate ETL pipeline: extract.py (extract_properties *)
(* and its __main__), src/transform2.py (transform and its __main__),      *)
(* src/load2.py (load_t0_db and its __main__) and src/main.py              *)
(* (run_pipeline).                                                         *)
(*                                                                         *)
(* A data frame is [cols, rows]: the column labels in order (labels may    *)
(* repeat, as in pandas) and one sequence of cell values per row.  The raw *)
(* JSON payload is a sequence of records, each a sequence of <<key, value>>*)
(* pairs in document order.  The file system is a function from the paths  *)
(* that exist to their content.  The destination table is [exists, rows],  *)
(* each stored row carrying the column labels it was written with.         *)
(***************************************************************************)
EXTENDS Integers, Sequences, FiniteSets, TLC

VARIABLES
    files,      \* the file system: path -> content, for the paths that exist
    table,      \* the destination table properties_data
    script,     \* the entry point that is running
    pc,         \* position inside the running entry point
    i,          \* index into cities of the city being processed
    first,      \* the `first` flag of run_pipeline and of load2's __main__
    raw_file,   \* run_pipeline's raw_file (None or a path)
    clean_file, \* run_pipeline's clean_file (None or a path)
    exc,        \* the exception that ended the running entry point, or "none"
    ev,         \* the last step taken, with the state it started from
    hist,       \* the steps of the current run, in order
    calls       \* number of load_t0_db calls made by an importing program

vars == <<files, table, script, pc, i, first, raw_file, clean_file, exc, ev, hist, calls>>

----------------------------------------------------------------------------
(* Bounds *)

\* Largest number of property records in one API response.
MaxRecords == 2

\* Largest number of direct load_t0_db calls in one behaviour of SpecLoader.
MaxCalls == 2

----------------------------------------------------------------------------
(* Values *)

None == "None"

\* pd.NA / NaN: the null cell of a frame, NULL in the table.
Null == <<"NA">>

\* The empty field of a CSV line.
EmptyField == <<>>

\* The value the API reports for field f of record r of city c.
Val(c, r, f) == <<c, r, f>>

\* A sequence given by a function on 1..n, held as a tuple.
Tup(f) == <<>> \o f

\* The string made of the characters of s.
RECURSIVE Join(_)
Join(s) == IF s = <<>> THEN "" ELSE Head(s) \o Join(Tail(s))

\* str.replace(old, "") for a one-character old, on a string held as its characters.
RECURSIVE StrRemove(_, _)
StrRemove(s, old) ==
    IF s = <<>> THEN <<>>
    ELSE (IF Head(s) = old THEN <<>> ELSE <<Head(s)>>) \o StrRemove(Tail(s), old)

----------------------------------------------------------------------------
(* The fixed city list *)

SanAntonio == <<"S","a","n"," ","A","n","t","o","n","i","o">>
Houston == <<"H","o","u","s","t","o","n">>
Dallas == <<"D","a","l","l","a","s">>

cities == << <<SanAntonio, "TX">>, <<Houston, "TX">>, <<Dallas, "TX">> >>

CityIdx == 1..Len(cities)

----------------------------------------------------------------------------
(* Column tables *)

\* The fields transform selects, in the order it selects them.
columns ==
    <<"id", "formattedAddress", "city", "state", "stateFips", "zipCode", "county",
      "countyFips", "latitude", "longitude", "propertyType", "bedrooms",
      "bathrooms", "squareFootage", "yearBuilt">>

\* A rename table that lost the zipCode entry.
TransformRenameNoZip ==
    [formattedAddress |-> "address", stateFips |-> "state_fips",
     countyFips |-> "county_fips", propertyType |-> "property_type",
     squareFootage |-> "square_footage", yearBuilt |-> "year_built"]

\* transform's rename table.
TransformRename ==
    [formattedAddress |-> "address", zipCode |-> "zip_code", stateFips |-> "state_fips",
     countyFips |-> "county_fips", propertyType |-> "property_type",
     squareFootage |-> "square_footage", yearBuilt |-> "year_built"]

STANDARD_COLS ==
    <<"id", "address", "city", "state", "state_fips", "zip_code", "county", "county_fips",
      "latitude", "longitude", "property_type", "bedrooms", "bathrooms",
      "square_footage", "year_built">>

RENAME_MAP ==
    [county_Fips |-> "county_fips", formattedAddress |-> "address", zipCode |-> "zip_code",
     stateFips |-> "state_fips", countyFips |-> "county_fips",
     propertyType |-> "property_type", squareFootage |-> "square_footage",
     yearBuilt |-> "year_built"]

----------------------------------------------------------------------------
(* Data-frame operations *)

Range(s) == {s[k] : k \in 1..Len(s)}

\* df[names] raises KeyError unless every name labels a column.
CanSelect(df, names) == \A k \in 1..Len(names) : names[k] \in Range(df.cols)

\* df[names]: for each name in turn, every column carrying that label.  The picks
\* are the pairs <<n, k>> with names[n] the label of column k, taken in order of n
\* and then of k.
Select(df, names) ==
    LET picks == {p \in (1..Len(names)) \X (1..Len(df.cols)) : names[p[1]] = df.cols[p[2]]}
        rank(p) == Cardinality({q \in picks :
                                  q[1] < p[1] \/ (q[1] = p[1] /\ q[2] < p[2])})
        idx == Tup([j \in 1..Cardinality(picks) |->
                      (CHOOSE p \in picks : rank(p) = j - 1)[2]])
    IN  [cols |-> Tup([j \in 1..Len(idx) |-> df.cols[idx[j]]]),
         rows |-> Tup([r \in 1..Len(df.rows) |->
                         Tup([j \in 1..Len(idx) |-> df.rows[r][idx[j]]])])]

\* df.rename(columns=map): labels in the map are replaced, the others kept.
Rename(df, map) ==
    [cols |-> Tup([j \in 1..Len(df.cols) |->
                     IF df.cols[j] \in DOMAIN map THEN map[df.cols[j]] ELSE df.cols[j]]),
     rows |-> df.rows]

\* The keys of one JSON record, in document order.
Keys(rec) == Tup([k \in 1..Len(rec) |-> rec[k][1]])

HasKey(rec, key) == \E k \in 1..Len(rec) : rec[k][1] = key

Lookup(rec, key) ==
    IF HasKey(rec, key) THEN rec[CHOOSE k \in 1..Len(rec) : rec[k][1] = key][2] ELSE Null

\* The keys of all records in order of first appearance: a key comes before another
\* when its first occurrence <<record, position>> comes first.
UnionKeys(data) ==
    LET occ == UNION {{<<r, k>> : k \in 1..Len(data[r])} : r \in 1..Len(data)}
        before(p, q) == p[1] < q[1] \/ (p[1] = q[1] /\ p[2] < q[2])
        key(p) == data[p[1]][p[2]][1]
        firsts == {p \in occ : \A q \in occ : key(q) = key(p) => ~before(q, p)}
    IN  Tup([j \in 1..Cardinality(firsts) |->
               key(CHOOSE p \in firsts :
                     Cardinality({q \in firsts : before(q, p)}) = j - 1)])

\* pd.json_normalize(data): one row per record, one column per key in order of first
\* appearance, NaN where a record lacks the key.  Records are held flattened.
JsonNormalize(data) ==
    LET cs == UnionKeys(data)
    IN  [cols |-> cs,
         rows |-> Tup([r \in 1..Len(data) |->
                         Tup([j \in 1..Len(cs) |-> Lookup(data[r], cs[j])])])]

----------------------------------------------------------------------------
(* CSV artifacts *)

\* df.to_csv(path, index=False): a header line and one line per row, a null cell
\* written as an empty field.
ToCsv(df) ==
    [kind |-> "csv",
     header |-> df.cols,
     lines |-> Tup([r \in 1..Len(df.rows) |->
                      Tup([j \in 1..Len(df.cols) |->
                             IF df.rows[r][j] = Null THEN EmptyField ELSE df.rows[r][j]])])]

\* read_csv renames a repeated header label: its k-th repeat becomes label.k
MangleDupes(header) ==
    Tup([j \in 1..Len(header) |->
           LET k == Cardinality({m \in 1..(j - 1) : header[m] = header[j]})
           IN  IF k = 0 THEN header[j] ELSE header[j] \o "." \o ToString(k)])

\* pd.read_csv(path): the header gives the labels, an empty field reads as NaN.
ReadCsv(f) ==
    [cols |-> MangleDupes(f.header),
     rows |-> Tup([r \in 1..Len(f.lines) |->
                     Tup([j \in 1..Len(f.header) |->
                            IF f.lines[r][j] = EmptyField THEN Null ELSE f.lines[r][j]])])]

----------------------------------------------------------------------------
(* Paths *)

\* extract_properties: f"data/raw/properties_data_{city}_{state}.json"
RawFileName(city, state) ==
    "data/raw/properties_data_" \o Join(city) \o "_" \o state \o ".json"

\* transform: city_clean = city.replace(" ", ""), then
\* f"data/transformed/properties_data_{city_clean}_{state}.csv"
TransformedFileName(city, state) ==
    "data/transformed/properties_data_" \o Join(StrRemove(city, " ")) \o "_" \o state \o ".csv"

\* transform2's __main__: the raw path it looks up.
TransformMainRawPath(city, state) ==
    "data/raw/properties_data_" \o Join(StrRemove(city, " ")) \o "_" \o state \o ".json"

WriteFile(fs, path, content) == (path :> content) @@ fs

----------------------------------------------------------------------------
(* The upstream API *)

\* The records of one 200 response: n records of city c, each with the given keys.
Record(c, r, keys) == Tup([k \in 1..Len(keys) |-> <<keys[k], Val(c, r, keys[k])>>])

Payload(c, keys, n) == Tup([r \in 1..n |-> Record(c, r, keys)])

Reverse(s) == Tup([k \in 1..Len(s) |-> s[Len(s) + 1 - k]])

\* Key layouts of a record: the documented order; another order with extra keys;
\* the documented order without county.
ApiKeys == columns
ShuffledKeys == <<"owner.type">> \o Reverse(columns) \o <<"lotSize">>
NoCountyKeys == StrRemove(columns, "county")

RawLayouts == {ApiKeys, ShuffledKeys, NoCountyKeys}

\* A response whose first record lacks county and whose last record has it.
MixedPayload(c) ==
    <<Record(c, 1, NoCountyKeys), Record(c, 2, ShuffledKeys)>>

Payloads(c) ==
    {Payload(c, keys, n) : keys \in RawLayouts, n \in 0..MaxRecords}
        \cup (IF MaxRecords >= 2 THEN {MixedPayload(c)} ELSE {})

\* The body of an error response: one object with a message.
ErrorBody(c) == << << <<"message", Val(c, 0, "message")>> >> >>

\* What requests.get can do for city c: fail below HTTP, or answer with a status and
\* a body that parses as JSON (json |-> TRUE, data the parsed value) or does not.
Responses(c) ==
    {[kind |-> "network_error", status |-> 0, json |-> FALSE, data |-> <<>>]}
        \cup {[kind |-> "http", status |-> st, json |-> TRUE, data |-> ErrorBody(c)] :
                st \in {403, 500}}
        \cup {[kind |-> "http", status |-> 200, json |-> FALSE, data |-> <<>>]}
        \cup {[kind |-> "http", status |-> 200, json |-> TRUE, data |-> d] : d \in Payloads(c)}

----------------------------------------------------------------------------
(* The three stage functions.  Each returns the exception it raises ("none" when *)
(* it returns normally), its return value, and the store it leaves behind.       *)

\* extract_properties without the test of the status code: every HTTP answer is saved.
extract_properties_any_status(fs, city, state, resp) ==
    IF resp.kind = "network_error"
    THEN [raised |-> "ConnectionError", ret |-> None, files |-> fs]
    ELSE IF resp.json
         THEN [raised |-> "none", ret |-> RawFileName(city, state),
               files |-> WriteFile(fs, RawFileName(city, state),
                                   [kind |-> "json", data |-> resp.data])]
         ELSE [raised |-> "JSONDecodeError", ret |-> None, files |-> fs]

\* extract.py, extract_properties(city, state) given what requests.get does.
extract_properties(fs, city, state, resp) ==
    IF resp.kind = "network_error"
    THEN [raised |-> "ConnectionError", ret |-> None, files |-> fs]
    ELSE IF resp.status = 200
         THEN IF resp.json
              THEN [raised |-> "none", ret |-> RawFileName(city, state),
                    files |-> WriteFile(fs, RawFileName(city, state),
                                        [kind |-> "json", data |-> resp.data])]
              ELSE [raised |-> "JSONDecodeError", ret |-> None, files |-> fs]
         ELSE [raised |-> "none", ret |-> None, files |-> fs]

\* src/transform2.py, transform(file_path, city, state).
transform(fs, file_path, city, state) ==
    IF file_path \notin DOMAIN fs
    THEN [raised |-> "FileNotFoundError", ret |-> None, files |-> fs]
    ELSE LET df == JsonNormalize(fs[file_path].data)
         IN  IF ~CanSelect(df, columns)
             THEN [raised |-> "KeyError", ret |-> None, files |-> fs]
             ELSE [raised |-> "none", ret |-> TransformedFileName(city, state),
                   files |-> WriteFile(fs, TransformedFileName(city, state),
                                       ToCsv(Rename(Select(df, columns), TransformRename)))]

\* load_t0_db step 3: every standard column that is not a label yet is added as a
\* column of nulls, in the order of STANDARD_COLS.
EnsureCols(df, cols) ==
    LET missing == {m \in 1..Len(cols) : cols[m] \notin Range(df.cols)}
        added == Tup([j \in 1..Cardinality(missing) |->
                        cols[CHOOSE m \in missing :
                               Cardinality({n \in missing : n < m}) = j - 1]])
    IN  [cols |-> df.cols \o added,
         rows |-> Tup([r \in 1..Len(df.rows) |->
                         df.rows[r] \o Tup([j \in 1..Len(added) |-> Null])])]

\* load_t0_db steps 2 to 4: rename, ensure, keep the standard set and order.
Reconcile(df) == Select(EnsureCols(Rename(df, RENAME_MAP), STANDARD_COLS), STANDARD_COLS)

\* The rows of a frame as the sink stores them.
FrameRows(df) == Tup([r \in 1..Len(df.rows) |-> [cols |-> df.cols, vals |-> df.rows[r]]])

\* df.to_sql("properties_data", engine, if_exists=mode, index=False) on a reachable
\* database: replace drops the table and stores the frame's rows, append adds them.
\* The sink is a generic tabular one: it stores a row with the labels the frame has.
to_sql(tbl, df, mode) ==
    IF mode = "replace"
    THEN [exists |-> TRUE, rows |-> FrameRows(df)]
    ELSE [exists |-> TRUE, rows |-> tbl.rows \o FrameRows(df)]

\* src/load2.py, load_t0_db(file_name, if_exists_mode); db_ok: the database accepts
\* the write.
load_t0_db(fs, tbl, file_name, if_exists_mode, db_ok) ==
    IF file_name \notin DOMAIN fs
    THEN [raised |-> "FileNotFoundError", table |-> tbl]
    ELSE IF ~db_ok
         THEN [raised |-> "OperationalError", table |-> tbl]
         ELSE [raised |-> "none",
               table |-> to_sql(tbl, Reconcile(ReadCsv(fs[file_name])), if_exists_mode)]

\* A mode choice that never replaces.
LoadModeAppendOnly(f) == "append"

\* run_pipeline and load2's __main__: the mode of a load, from the `first` flag.
LoadMode(f) == IF f THEN "replace" ELSE "append"

----------------------------------------------------------------------------
(* Bookkeeping of steps *)

NoFiles == [p \in {} |-> None]

NoTable == [exists |-> FALSE, rows |-> <<>>]

\* A table left by an earlier run: one canonical row.
PriorTable ==
    [exists |-> TRUE,
     rows |-> << [cols |-> STANDARD_COLS,
                  vals |-> Tup([j \in 1..Len(STANDARD_COLS) |->
                                  Val(0, 1, STANDARD_COLS[j])])] >>]

City(c) == cities[c][1]
State(c) == cities[c][2]

\* The step being taken: what it is, and the state it starts from.
Ev(op, c, resp, mode, path, raised) ==
    [op |-> op, city |-> c, kind |-> resp.kind, status |-> resp.status, json |-> resp.json,
     data |-> resp.data, mode |-> mode, path |-> path, raised |-> raised,
     files0 |-> files, table0 |-> table, first0 |-> first]

NoResp == [kind |-> "none", status |-> 0, json |-> FALSE, data |-> <<>>]

NoEv == [op |-> "start", city |-> 0, kind |-> "none", status |-> 0, json |-> FALSE,
         data |-> <<>>, mode |-> "none", path |-> None, raised |-> "none",
         files0 |-> NoFiles, table0 |-> NoTable, first0 |-> TRUE]

\* The entry a step leaves in hist.
Step(op, c, resp, mode, raised) ==
    [op |-> op, city |-> c, kind |-> resp.kind, status |-> resp.status, json |-> resp.json,
     nrec |-> Len(resp.data),
     county |-> \E r \in 1..Len(resp.data) : HasKey(resp.data[r], "county"),
     mode |-> mode, raised |-> raised]

\* After the body of the loop for city c: the next city, or the end of the run.
AfterCity(c) == IF c = Len(cities) THEN "done" ELSE "city"

----------------------------------------------------------------------------
(* src/main.py: run_pipeline *)

\* raw_file = extract_properties(city=city, state=state), then the test of raw_file;
\* the else branch only prints.
MainExtract ==
    /\ script = "main" /\ pc = "city"
    /\ \E resp \in Responses(i) :
         LET r == extract_properties(files, City(i), State(i), resp)
         IN  /\ ev' = Ev("extract", i, resp, "none", r.ret, r.raised)
             /\ hist' = Append(hist, Step("extract", i, resp, "none", r.raised))
             /\ files' = r.files
             /\ raw_file' = r.ret
             /\ IF r.raised # "none"
                THEN /\ pc' = "crashed" /\ exc' = r.raised /\ i' = i
                ELSE IF r.ret # None
                     THEN /\ pc' = "transform" /\ exc' = exc /\ i' = i
                     ELSE /\ pc' = AfterCity(i) /\ exc' = exc /\ i' = i + 1
    /\ UNCHANGED <<table, script, first, clean_file, calls>>

\* clean_file = transform(raw_file, city, state)
MainTransform ==
    /\ script = "main" /\ pc = "transform"
    /\ LET r == transform(files, raw_file, City(i), State(i))
       IN  /\ ev' = Ev("transform", i, NoResp, "none", r.ret, r.raised)
           /\ hist' = Append(hist, Step("transform", i, NoResp, "none", r.raised))
           /\ files' = r.files
           /\ clean_file' = r.ret
           /\ IF r.raised # "none"
              THEN /\ pc' = "crashed" /\ exc' = r.raised
              ELSE /\ pc' = "load" /\ exc' = exc
    /\ UNCHANGED <<table, script, i, first, raw_file, calls>>

\* load_t0_db(clean_file, "replace") and first = False, or load_t0_db(clean_file, "append")
MainLoad ==
    /\ script = "main" /\ pc = "load"
    /\ \E db_ok \in BOOLEAN :
         LET mode == LoadMode(first)
             r == load_t0_db(files, table, clean_file, mode, db_ok)
         IN  /\ ev' = Ev("load", i, NoResp, mode, clean_file, r.raised)
             /\ hist' = Append(hist, Step("load", i, NoResp, mode, r.raised))
             /\ table' = r.table
             /\ IF r.raised # "none"
                THEN /\ pc' = "crashed" /\ exc' = r.raised /\ i' = i /\ first' = first
                ELSE /\ pc' = AfterCity(i) /\ exc' = exc /\ i' = i + 1 /\ first' = FALSE
    /\ UNCHANGED <<files, script, raw_file, clean_file, calls>>

InitCommon ==
    /\ pc = "city" /\ i = 1 /\ first = TRUE
    /\ raw_file = None /\ clean_file = None
    /\ exc = "none" /\ ev = NoEv /\ hist = <<>> /\ calls = 0

\* The pipeline starts with or without a table left by an earlier run.
Init ==
    /\ InitCommon
    /\ script = "main"
    /\ files = NoFiles
    /\ table \in {NoTable, PriorTable}

Next == MainExtract \/ MainTransform \/ MainLoad

Spec == Init /\ [][Next]_vars

----------------------------------------------------------------------------
(* The stage scripts run one after the other: extract.py, src/transform2.py, *)
(* src/load2.py.                                                             *)

\* extract.py's __main__: one call per city, its result not looked at.
ExtractMain ==
    /\ script = "extract" /\ pc = "city"
    /\ \E resp \in Responses(i) :
         LET r == extract_properties(files, City(i), State(i), resp)
         IN  /\ ev' = Ev("extract", i, resp, "none", r.ret, r.raised)
             /\ hist' = Append(hist, Step("extract", i, resp, "none", r.raised))
             /\ files' = r.files
             /\ IF r.raised # "none"
                THEN /\ pc' = "crashed" /\ exc' = r.raised /\ i' = i
                ELSE /\ pc' = AfterCity(i) /\ exc' = exc /\ i' = i + 1
    /\ UNCHANGED <<table, script, first, raw_file, clean_file, calls>>

\* transform2's __main__: transform the city's raw file if os.path.exists finds it.
TransformMain ==
    /\ script = "transform" /\ pc = "city"
    /\ LET file_path == TransformMainRawPath(City(i), State(i))
       IN  IF file_path \in DOMAIN files
           THEN LET r == transform(files, file_path, City(i), State(i))
                IN  /\ ev' = Ev("transform", i, NoResp, "none", file_path, r.raised)
                    /\ hist' = Append(hist, Step("transform", i, NoResp, "none", r.raised))
                    /\ files' = r.files
                    /\ IF r.raised # "none"
                       THEN /\ pc' = "crashed" /\ exc' = r.raised /\ i' = i
                       ELSE /\ pc' = AfterCity(i) /\ exc' = exc /\ i' = i + 1
           ELSE /\ ev' = Ev("not_found", i, NoResp, "none", file_path, "none")
                /\ hist' = Append(hist, Step("not_found", i, NoResp, "none", "none"))
                /\ pc' = AfterCity(i) /\ i' = i + 1
                /\ UNCHANGED <<files, exc>>
    /\ UNCHANGED <<table, script, first, raw_file, clean_file, calls>>

\* load2's __main__: load the city's transformed file if os.path.exists finds it,
\* and only then clear first.
LoadMain ==
    /\ script = "load" /\ pc = "city"
    /\ LET file_name == TransformedFileName(City(i), State(i))
       IN  IF file_name \in DOMAIN files
           THEN \E db_ok \in BOOLEAN :
                  LET mode == LoadMode(first)
                      r == load_t0_db(files, table, file_name, mode, db_ok)
                  IN  /\ ev' = Ev("load", i, NoResp, mode, file_name, r.raised)
                      /\ hist' = Append(hist, Step("load", i, NoResp, mode, r.raised))
                      /\ table' = r.table
                      /\ IF r.raised # "none"
                         THEN /\ pc' = "crashed" /\ exc' = r.raised /\ i' = i
                              /\ first' = first
                         ELSE /\ pc' = AfterCity(i) /\ exc' = exc /\ i' = i + 1
                              /\ first' = FALSE
           ELSE /\ ev' = Ev("not_found", i, NoResp, "none", file_name, "none")
                /\ hist' = Append(hist, Step("not_found", i, NoResp, "none", "none"))
                /\ pc' = AfterCity(i) /\ i' = i + 1
                /\ UNCHANGED <<table, exc, first>>
    /\ UNCHANGED <<files, script, raw_file, clean_file, calls>>

\* One script has ended, normally or not; the next one is started.
NextScript ==
    /\ pc \in {"done", "crashed"}
    /\ script \in {"extract", "transform"}
    /\ script' = IF script = "extract" THEN "transform" ELSE "load"
    /\ pc' = "city" /\ i' = 1 /\ first' = TRUE /\ exc' = "none"
    /\ ev' = Ev("start", 0, NoResp, "none", None, "none")
    /\ hist' = Append(hist, Step("start", 0, NoResp, "none", "none"))
    /\ UNCHANGED <<files, table, raw_file, clean_file, calls>>

InitStages ==
    /\ InitCommon
    /\ script = "extract"
    /\ files = NoFiles
    /\ table \in {NoTable, PriorTable}

NextStages == ExtractMain \/ TransformMain \/ LoadMain \/ NextScript

SpecStages == InitStages /\ [][NextStages]_vars

----------------------------------------------------------------------------
(* The loader on artifacts of any column layout: load2.py run as a script, or *)
(* load_t0_db called by a program that imports it.                            *)

\* Header lines of artifacts written outside the pipeline.
CanonicalHeader == STANDARD_COLS
SourceHeader == columns
PartialHeader == <<"extra", "yearBuilt", "id", "zipCode", "county_Fips">>
AliasAndCanonicalHeader == STANDARD_COLS \o <<"countyFips">>
TwoAliasesHeader == <<"id", "county_Fips", "countyFips">>
RepeatedHeader == <<"id", "city", "city">>

ExternalHeaders ==
    {CanonicalHeader, SourceHeader, PartialHeader, AliasAndCanonicalHeader,
     TwoAliasesHeader, RepeatedHeader}

\* An artifact for city c with the given header and one line; its bedrooms and
\* yearBuilt fields are empty.
ExternalArtifact(c, header) ==
    [kind |-> "csv",
     header |-> header,
     lines |-> << Tup([j \in 1..Len(header) |->
                         IF header[j] \in {"bedrooms", "yearBuilt"} THEN EmptyField
                         ELSE Val(c, j, header[j])]) >>]

\* The transformed store when each city has the artifact layout[c], or none (<<>>).
StoreOf(layout) ==
    LET present == {c \in CityIdx : layout[c] # <<>>}
        paths == {TransformedFileName(City(c), State(c)) : c \in present}
    IN  [p \in paths |->
           LET c == CHOOSE c \in present : TransformedFileName(City(c), State(c)) = p
           IN  ExternalArtifact(c, layout[c])]

\* A program that imported load_t0_db calls it for some city's path with some mode.
CallLoad ==
    /\ script = "loader" /\ pc = "city"
    /\ calls < MaxCalls
    /\ \E c \in CityIdx, mode \in {"replace", "append"}, db_ok \in BOOLEAN :
         LET file_name == TransformedFileName(City(c), State(c))
             r == load_t0_db(files, table, file_name, mode, db_ok)
         IN  /\ ev' = Ev("load", c, NoResp, mode, file_name, r.raised)
             /\ hist' = Append(hist, Step("load", c, NoResp, mode, r.raised))
             /\ table' = r.table
             /\ IF r.raised # "none"
                THEN /\ pc' = "crashed" /\ exc' = r.raised
                ELSE /\ pc' = "city" /\ exc' = exc
    /\ calls' = calls + 1
    /\ UNCHANGED <<files, script, i, first, raw_file, clean_file>>

InitLoader ==
    /\ InitCommon
    /\ script \in {"load", "loader"}
    /\ \E layout \in [CityIdx -> ExternalHeaders \cup {<<>>}] : files = StoreOf(layout)
    /\ table \in {NoTable, PriorTable}

NextLoader == LoadMain \/ CallLoad

SpecLoader == InitLoader /\ [][NextLoader]_vars

----------------------------------------------------------------------------
(* Properties of run_pipeline (Spec) *)

LoadIdx == {k \in 1..Len(hist) : hist[k].op = "load"}

ExtractIdx == {k \in 1..Len(hist) : hist[k].op = "extract"}

\* The rows of the transformed artifact the last load read.
LoadedRows == FrameRows(ReadCsv(ev.files0[ev.path]))

\* C1: the first load step of a run uses replace and leaves the table holding exactly
\* that city's rows; every later load step uses append and leaves the table holding
\* what it held before followed by that city's rows.
C1_ReplaceFirstThenAppend ==
    /\ \A k \in LoadIdx :
         hist[k].mode = IF \E m \in LoadIdx : m < k THEN "append" ELSE "replace"
    /\ (ev.op = "load" /\ ev.raised = "none") =>
         /\ table.exists
         /\ ev.mode = "replace" => table.rows = LoadedRows
         /\ ev.mode = "append" => table.rows = ev.table0.rows \o LoadedRows

\* A run whose first city failed extraction, whose second city replaced a table left
\* by an earlier run, and whose third city appended.
C1_Witness ==
    /\ pc = "done" /\ Len(hist) = 7
    /\ hist[1].status = 403
    /\ hist[4].op = "load" /\ hist[4].city = 2 /\ hist[4].mode = "replace"
    /\ hist[7].op = "load" /\ hist[7].city = 3 /\ hist[7].mode = "append"
    /\ ev.table0.rows # <<>> /\ Len(table.rows) > Len(ev.table0.rows)
    /\ \A k \in 1..Len(table.rows) : table.rows[k] \notin Range(PriorTable.rows)

\* C2: a non-200 answer leaves the store, the table and the first flag as they were,
\* raises nothing, and hands over to the next city; a run that ends normally has
\* extracted every city.
C2_Non200SkipsCity ==
    /\ (ev.op = "extract" /\ ev.kind = "http" /\ ev.status # 200) =>
         /\ files = ev.files0 /\ table = ev.table0 /\ first = ev.first0
         /\ raw_file = None /\ exc = "none"
         /\ pc = AfterCity(ev.city) /\ i = ev.city + 1
    /\ pc = "done" => \A c \in CityIdx : \E k \in ExtractIdx : hist[k].city = c

\* The second city answers 403 after the first city was loaded.
C2_Witness ==
    /\ ev.op = "extract" /\ ev.city = 2 /\ ev.status = 403
    /\ ~first /\ table.rows # <<>> /\ pc = "city" /\ i = 3

\* C3: a network failure, a non-200 answer and a 200 answer with a malformed body all
\* end extract_properties with nothing raised and nothing returned, and the run goes
\* on to the next city.
C3_ExtractionFailuresAbsent ==
    (ev.op = "extract" /\ (ev.kind = "network_error" \/ ev.status # 200 \/ ~ev.json)) =>
        /\ ev.raised = "none" /\ raw_file = None
        /\ pc = AfterCity(ev.city) /\ i = ev.city + 1

\* C4: when a selected field is missing from the flattened data, nothing is written
\* or loaded for the city, and the run goes on to the next city.
C4_TransformFailureSkipsCity ==
    (ev.op = "transform"
       /\ ~CanSelect(JsonNormalize(ev.files0[raw_file].data), columns)) =>
        /\ files = ev.files0 /\ table = ev.table0
        /\ pc = AfterCity(ev.city)

\* C8: a transformed artifact has the 15 canonical names in canonical order as its
\* header and one line per raw record, holding that record's selected fields.
C8_TransformedHeaderCanonical ==
    (ev.op = "transform" /\ ev.raised = "none") =>
        LET raw == files[raw_file].data
            out == files[ev.path]
        IN  /\ out.header = STANDARD_COLS
            /\ Len(out.lines) = Len(raw)
            /\ \A r \in 1..Len(raw) :
                 /\ Len(out.lines[r]) = Len(STANDARD_COLS)
                 /\ \A j \in 1..Len(columns) :
                      out.lines[r][j] =
                        IF HasKey(raw[r], columns[j]) THEN Lookup(raw[r], columns[j])
                        ELSE EmptyField

\* A transform of two records whose keys come in another order, with extra keys.
C8_Witness ==
    /\ ev.op = "transform" /\ ev.raised = "none"
    /\ Len(files[raw_file].data) = 2
    /\ Keys(files[raw_file].data[1]) = ShuffledKeys
    /\ ev.path = "data/transformed/properties_data_SanAntonio_TX.csv"

RECURSIVE SumRecords(_)
SumRecords(h) ==
    IF h = <<>> THEN 0
    ELSE (IF Head(h).op = "extract" THEN Head(h).nrec ELSE 0) + SumRecords(Tail(h))

CountyCol == CHOOSE j \in 1..Len(STANDARD_COLS) : STANDARD_COLS[j] = "county"

\* C9: when every extraction answers 200 with records and no record has a county,
\* the run ends normally with one table row per raw record, county null in each.
C9_MissingCountyLoadsNulls ==
    (/\ hist # <<>>
     /\ \A k \in ExtractIdx :
          hist[k].status = 200 /\ hist[k].json /\ hist[k].nrec > 0 /\ ~hist[k].county
     /\ exc # "OperationalError") =>
        /\ exc = "none"
        /\ pc = "done" =>
             /\ Len(table.rows) = SumRecords(hist)
             /\ \A k \in 1..Len(table.rows) : table.rows[k].vals[CountyCol] = Null

----------------------------------------------------------------------------
(* Properties of the loader (SpecLoader) *)

\* C5: a load whose file does not exist raises nothing and leaves the table as it
\* was, whether load_t0_db is called directly or the load script meets the missing
\* file; the script keeps its first flag and goes on to the next city.
C5_MissingArtifactSkipped ==
    /\ (ev.op = "load" /\ ev.path \notin DOMAIN ev.files0) =>
         /\ ev.raised = "none" /\ exc = "none" /\ pc # "crashed"
         /\ table = ev.table0
    /\ ev.op = "not_found" =>
         /\ exc = "none" /\ table = ev.table0 /\ first = ev.first0
         /\ pc = AfterCity(ev.city) /\ i = ev.city + 1

\* C6: every row of the destination table carries exactly the 15 canonical columns,
\* each once, in canonical order, whatever columns the loaded artifacts had.
C6_TableColumnsCanonical ==
    \A k \in 1..Len(table.rows) : table.rows[k].cols = STANDARD_COLS

\* The artifact in canonical form that holds what reconciling artifact f gives.
CanonicalFormOf(f) == ToCsv(Reconcile(ReadCsv(f)))

\* C7: loading an artifact leaves the table as loading its canonical form, with the
\* same mode into the same table, would leave it.
C7_ReconcileIdempotent ==
    (ev.op = "load" /\ ev.raised = "none") =>
        table = to_sql(ev.table0,
                       Reconcile(ReadCsv(CanonicalFormOf(ev.files0[ev.path]))),
                       ev.mode)

----------------------------------------------------------------------------
(* Properties of the stage scripts (SpecStages) *)

\* C10: the transform script looks the raw artifact up under the key the extractor
\* wrote it with, so a raw artifact the extractor wrote for a city is found.
C10_RawKeyHandshake ==
    (script = "transform" /\ ev.op \in {"transform", "not_found"}) =>
        /\ ev.path = RawFileName(City(ev.city), State(ev.city))
        /\ RawFileName(City(ev.city), State(ev.city)) \in DOMAIN ev.files0 =>
             ev.op = "transform"

====
